---- MODULE Spec2Model ----
(***************************************************************************)
(* disvae/models/encoders.py: the encoder factory get_encoder and the      *)
(* three encoders EncoderBurgess, ConvEncoder and DomainEncoder.           *)
(*                                                                         *)
(* Shapes, indices and counters are modelled exactly, with the layer       *)
(* sizes of the source.  Tensor contents are modelled as terms: a row of   *)
(* a hidden tensor records the sample it was computed from, the layers     *)
(* applied to it, and, for every batch normalisation, the statistics used  *)
(* (those of the batch in training mode, the running ones in eval mode).   *)
(***************************************************************************)
EXTENDS Integers, Sequences, FiniteSets, TLC

VARIABLES
    model_type,   \* argument of the last get_encoder call (a string, as characters)
    resolved,     \* what that call returned or raised
    enc,          \* the encoder instance (its attributes, mode and buffers)
    ret           \* outcome of the forward call whose result the caller holds

vars == <<model_type, resolved, enc, ret>>

(***************************************************************************)
(* Bounds of the model.                                                    *)
(***************************************************************************)
MaxBatch == 2       \* batch sizes 1..MaxBatch
MaxLatent == 2      \* latent_dim / output_dim 1..MaxLatent
MaxDomains == 2     \* num_domains 1..MaxDomains
MaxTracked == 2     \* training-mode forward calls counted per batch-norm layer

Sides == {1, 28, 32, 64}     \* heights and widths of images
Channels == {1, 3}           \* channel counts of images
Pixels == {0, 1}             \* contents of one image sample (abstract)

(***************************************************************************)
(* Strings: a string is a sequence of one-character strings.               *)
(***************************************************************************)
LowerCase == <<"a", "b", "c", "d", "e", "g", "i", "m", "n", "o", "r", "s", "u", "v">>
UpperCase == <<"A", "B", "C", "D", "E", "G", "I", "M", "N", "O", "R", "S", "U", "V">>

IsUpper(c) == \E i \in 1..Len(UpperCase) : UpperCase[i] = c
IsLower(c) == \E i \in 1..Len(LowerCase) : LowerCase[i] = c

ToLower(c) ==
    IF IsUpper(c) THEN LowerCase[CHOOSE i \in 1..Len(UpperCase) : UpperCase[i] = c] ELSE c

ToUpper(c) ==
    IF IsLower(c) THEN UpperCase[CHOOSE i \in 1..Len(LowerCase) : LowerCase[i] = c] ELSE c

\* str.lower()
str_lower(s) == [i \in 1..Len(s) |-> ToLower(s[i])]

\* str.capitalize(): first character upper-cased, the rest lower-cased
str_capitalize(s) == [i \in 1..Len(s) |-> IF i = 1 THEN ToUpper(s[i]) ELSE ToLower(s[i])]

\* "Encoder{}".format(s)
format_Encoder(s) == <<"E", "n", "c", "o", "d", "e", "r">> \o s

(***************************************************************************)
(* The names bound in the module's namespace once it is imported, which is *)
(* where eval looks an identifier up.                                      *)
(***************************************************************************)
Name_EncoderBurgess == <<"E", "n", "c", "o", "d", "e", "r", "B", "u", "r", "g", "e", "s", "s">>
Name_ConvEncoder == <<"C", "o", "n", "v", "E", "n", "c", "o", "d", "e", "r">>
Name_DomainEncoder == <<"D", "o", "m", "a", "i", "n", "E", "n", "c", "o", "d", "e", "r">>

Variants == {"EncoderBurgess", "ConvEncoder", "DomainEncoder"}

ModuleGlobals ==
    {[name |-> Name_EncoderBurgess, object |-> "EncoderBurgess"],
     [name |-> Name_ConvEncoder, object |-> "ConvEncoder"],
     [name |-> Name_DomainEncoder, object |-> "DomainEncoder"]}

\* eval(identifier): the object bound to the name, NameError when none is
eval(ident) ==
    IF \E g \in ModuleGlobals : g.name = ident
    THEN (CHOOSE g \in ModuleGlobals : g.name = ident).object
    ELSE "NameError"

get_encoder(name) ==
    LET normalized == str_capitalize(str_lower(name))
    IN  eval(format_Encoder(normalized))

(***************************************************************************)
(* Arguments given to get_encoder: every letter-casing of these words.     *)
(***************************************************************************)
Words ==
    {<<"b", "u", "r", "g", "e", "s", "s">>,
     <<"c", "o", "n", "v">>,
     <<"d", "o", "m", "a", "i", "n">>,
     <<"c", "o", "n", "v", "e", "n", "c", "o", "d", "e", "r">>,
     <<"d", "o", "m", "a", "i", "n", "e", "n", "c", "o", "d", "e", "r">>}

Casings(w) ==
    {[i \in 1..Len(w) |-> IF m[i] THEN ToUpper(w[i]) ELSE w[i]] :
        m \in [1..Len(w) -> BOOLEAN]}

ModelTypes == UNION {Casings(w) : w \in Words}

NoResult == "None"

(***************************************************************************)
(* Tensors.  A tensor is [shape, rows]: rows[b] stands for the slice of    *)
(* sample b (index b of dimension 0).  A row of an input is the sample's   *)
(* content (a pixel content, a domain index); a row of a hidden tensor is  *)
(* the term [src, ops, norm]: the sample it was computed from, the layers  *)
(* applied, and the statistics every batch normalisation used.             *)
(***************************************************************************)
RECURSIVE Product(_)
Product(s) == IF s = <<>> THEN 1 ELSE Head(s) * Product(Tail(s))

NoTensor == [shape |-> <<>>, rows |-> <<>>]

Term(sample) == [src |-> sample, ops |-> <<>>, norm |-> <<>>]

Wrap(rows, op) == [b \in 1..Len(rows) |-> [rows[b] EXCEPT !.ops = Append(@, op)]]

Normalized(rows, stats) == [b \in 1..Len(rows) |-> [rows[b] EXCEPT !.norm = Append(@, stats)]]

\* The samples a batch statistic (mean, variance over the batch) is taken over,
\* as a bag: how many rows of the batch come from each sample content.
BatchStatistics(rows) ==
    LET srcs == {rows[b].src : b \in 1..Len(rows)}
    IN  [v \in srcs |-> Cardinality({b \in 1..Len(rows) : rows[b].src = v})]

(***************************************************************************)
(* The state of a forward call in progress: the current tensor, the error  *)
(* raised (if any) and where, the layers evaluated so far, and the         *)
(* batch-norm buffers as the call has updated them.                        *)
(***************************************************************************)
Start(self, x) ==
    [x |-> [shape |-> x.shape, rows |-> [b \in 1..Len(x.rows) |-> Term(x.rows[b])]],
     err |-> "", at |-> "", applied |-> <<>>,
     num_batches_tracked |-> self.num_batches_tracked,
     running |-> self.running]

Fail(rs, err, at) == [rs EXCEPT !.err = err, !.at = at]

Done(rs, name, shape, rows) ==
    [rs EXCEPT !.x = [shape |-> shape, rows |-> rows], !.applied = Append(@, name)]

(***************************************************************************)
(* Layers of the framework, as the constructors configure them.            *)
(***************************************************************************)
Conv2d(in_channels, out_channels, kernel_size, stride, padding) ==
    [type |-> "Conv2d", in_channels |-> in_channels, out_channels |-> out_channels,
     kernel_size |-> kernel_size, stride |-> stride, padding |-> padding]

Linear(in_features, out_features) ==
    [type |-> "Linear", in_features |-> in_features, out_features |-> out_features]

BatchNorm2d(num_features) == [type |-> "BatchNorm2d", num_features |-> num_features]

BatchNorm1d(num_features) == [type |-> "BatchNorm1d", num_features |-> num_features]

Embedding(num_embeddings, embedding_dim) ==
    [type |-> "Embedding", num_embeddings |-> num_embeddings,
     embedding_dim |-> embedding_dim]

LeakyReLU == [type |-> "LeakyReLU"]

IsBatchNorm(cfg) == cfg.type \in {"BatchNorm1d", "BatchNorm2d"}

OutSizeCeil(n, kernel_size, stride, padding) ==
    (n + 2 * padding - kernel_size + stride - 1) \div stride + 1

\* Output size of one spatial dimension of a convolution or a pooling
\* (floor mode, dilation 1).
OutSize(n, kernel_size, stride, padding) == (n + 2 * padding - kernel_size) \div stride + 1

\* nn.Conv2d on a (B, C, H, W) tensor
Conv2d_forward(name, cfg, rs) ==
    LET s == rs.x.shape
        k == cfg.kernel_size
        p == cfg.padding
    IN  IF s[2] # cfg.in_channels THEN Fail(rs, "RuntimeError", name)
        ELSE IF s[3] + 2 * p < k \/ s[4] + 2 * p < k THEN Fail(rs, "RuntimeError", name)
        ELSE Done(rs, name,
                  <<s[1], cfg.out_channels,
                    OutSize(s[3], k, cfg.stride, p), OutSize(s[4], k, cfg.stride, p)>>,
                  Wrap(rs.x.rows, name))

\* nn.Linear: the last dimension must be in_features
Linear_forward(name, cfg, rs) ==
    LET s == rs.x.shape
        n == Len(s)
    IN  IF s[n] # cfg.in_features THEN Fail(rs, "RuntimeError", name)
        ELSE Done(rs, name, [s EXCEPT ![n] = cfg.out_features], Wrap(rs.x.rows, name))

Embedding_forward_wrapping(name, cfg, rs) ==
    LET rows == rs.x.rows
    IN  IF \E b \in 1..Len(rows) : rows[b].src >= cfg.num_embeddings
        THEN Fail(rs, "IndexError", name)
        ELSE Done(rs, name, Append(rs.x.shape, cfg.embedding_dim), Wrap(rows, name))

\* nn.Embedding: a lookup of every index of the input
Embedding_forward(name, cfg, rs) ==
    LET rows == rs.x.rows
    IN  IF \E b \in 1..Len(rows) : rows[b].src < 0 \/ rows[b].src >= cfg.num_embeddings
        THEN Fail(rs, "IndexError", name)
        ELSE Done(rs, name, Append(rs.x.shape, cfg.embedding_dim), Wrap(rows, name))

AlwaysTracks(self) == TRUE

AlwaysBatchStatistics(self) == TRUE

\* Whether a batch-norm layer of the encoder counts the batch and folds its
\* statistics into the running ones: in training mode.
TracksRunningStatistics(self) == self.training

\* Whether it normalises with the statistics of the batch: in training mode.
UsesBatchStatistics(self) == self.training

\* nn.BatchNorm1d / nn.BatchNorm2d.  In training mode the layer counts the
\* batch, refuses a batch with one value per channel, normalises with the
\* statistics of the batch and folds them into its running statistics; in
\* eval mode it normalises with the running statistics and writes nothing.
BatchNorm_forward(self, name, cfg, rs) ==
    LET s == rs.x.shape
        ndim == Len(s)
        dimOk == IF cfg.type = "BatchNorm2d" THEN ndim = 4 ELSE ndim \in {2, 3}
        size_prods == s[1] * Product(SubSeq(s, 3, ndim))
        counted == IF TracksRunningStatistics(self)
                   THEN [rs EXCEPT !.num_batches_tracked[name] = @ + 1]
                   ELSE rs
        folded == IF TracksRunningStatistics(self)
                  THEN [counted EXCEPT !.running[name] = @ + 1]
                  ELSE counted
        stats == IF UsesBatchStatistics(self)
                 THEN [layer |-> name, batch |-> BatchStatistics(rs.x.rows)]
                 ELSE [layer |-> name, running |-> rs.running[name]]
    IN  IF ~dimOk THEN Fail(rs, "ValueError", name)
        ELSE IF UsesBatchStatistics(self) /\ size_prods = 1
        THEN Fail(counted, "ValueError", name)
        ELSE IF s[2] # cfg.num_features THEN Fail(counted, "RuntimeError", name)
        ELSE Done(folded, name, s, Normalized(Wrap(rs.x.rows, name), stats))

\* self.<name>(x): an attribute the constructor did not set raises AttributeError
Call(self, name, rs) ==
    IF rs.err # "" THEN rs
    ELSE IF name \notin DOMAIN self.layers THEN Fail(rs, "AttributeError", name)
    ELSE LET cfg == self.layers[name]
         IN  CASE cfg.type = "Conv2d" -> Conv2d_forward(name, cfg, rs)
               [] cfg.type = "Linear" -> Linear_forward(name, cfg, rs)
               [] cfg.type = "Embedding" -> Embedding_forward(name, cfg, rs)
               [] IsBatchNorm(cfg) -> BatchNorm_forward(self, name, cfg, rs)
               [] cfg.type = "LeakyReLU" -> Done(rs, name, rs.x.shape, Wrap(rs.x.rows, name))

\* torch.relu
relu(rs) ==
    IF rs.err # "" THEN rs ELSE [rs EXCEPT !.x.rows = Wrap(@, "relu")]

max_pool2d_unpadded(rs, stride, kernel_size, padding) ==
    LET s == rs.x.shape
    IN  IF rs.err # "" THEN rs
        ELSE IF s[3] < kernel_size \/ s[4] < kernel_size
        THEN Fail(rs, "RuntimeError", "max_pool2d")
        ELSE [rs EXCEPT !.x = [shape |-> <<s[1], s[2],
                                           OutSize(s[3], kernel_size, stride, 0),
                                           OutSize(s[4], kernel_size, stride, 0)>>,
                               rows |-> Wrap(rs.x.rows, "max_pool2d")]]

\* F.max_pool2d on a (B, C, H, W) tensor
max_pool2d(rs, stride, kernel_size, padding) ==
    LET s == rs.x.shape
    IN  IF rs.err # "" THEN rs
        ELSE IF s[3] + 2 * padding < kernel_size \/ s[4] + 2 * padding < kernel_size
        THEN Fail(rs, "RuntimeError", "max_pool2d")
        ELSE [rs EXCEPT !.x = [shape |-> <<s[1], s[2],
                                           OutSize(s[3], kernel_size, stride, padding),
                                           OutSize(s[4], kernel_size, stride, padding)>>,
                               rows |-> Wrap(rs.x.rows, "max_pool2d")]]

\* The shape Tensor.view gives a tensor of `numel` elements: one dimension
\* may be -1 and is inferred; <<>> when the sizes do not fit (RuntimeError).
view_shape(numel, target) ==
    LET given == SelectSeq(target, LAMBDA d : d # -1)
        known == Product(given)
    IN  IF Len(given) = Len(target)
        THEN IF known = numel THEN target ELSE <<>>
        ELSE IF known = 0 \/ numel % known # 0 THEN <<>>
        ELSE [i \in 1..Len(target) |-> IF target[i] = -1 THEN numel \div known ELSE target[i]]

\* x.view(batch_size, ...) with batch_size the size of dimension 0: the rows
\* stay those of the samples.
view(rs, target) ==
    LET shape == view_shape(Product(rs.x.shape), target)
    IN  IF rs.err # "" THEN rs
        ELSE IF shape = <<>> THEN Fail(rs, "RuntimeError", "view")
        ELSE [rs EXCEPT !.x.shape = shape]

(***************************************************************************)
(* The last step of every forward: mu_logvar.view(.., latent_dim, 2)       *)
(* .unbind(-1).  A view shares the storage of its tensor; an element of    *)
(* the storage is named by where the projection wrote it: unit `unit`      *)
(* (counted from 0) of the output row of sample `row`.                     *)
(***************************************************************************)
Contiguous(t) ==
    LET numel == Product(t.shape)
        rowlen == numel \div t.shape[1]
    IN  [i \in 1..numel |-> [row |-> (i - 1) \div rowlen + 1, unit |-> (i - 1) % rowlen]]

unbind_halves(shape, storage) ==
    [k \in 1..shape[3] |->
        [shape |-> <<shape[1], shape[2]>>,
         elems |-> [b \in 1..shape[1] |-> [j \in 1..shape[2] |->
                        storage[(b - 1) * shape[2] * shape[3] + (k - 1) * shape[2] + j]]]]]

\* Tensor.unbind(-1) of a 3-dimensional view: one tensor per index of the last
\* dimension, each without that dimension.
unbind_last(shape, storage) ==
    [k \in 1..shape[3] |->
        [shape |-> <<shape[1], shape[2]>>,
         elems |-> [b \in 1..shape[1] |-> [j \in 1..shape[2] |->
                        storage[((b - 1) * shape[2] + (j - 1)) * shape[3] + k]]]]]

NoCall ==
    [status |-> "none", at |-> "", applied |-> <<>>, input |-> NoTensor,
     last |-> <<>>, mu_logvar |-> NoTensor, outputs |-> <<>>]

\* An exception leaves forward: `last` is the shape of the tensor the failing
\* operation was given.
Raised(rs, x) ==
    [status |-> rs.err, at |-> rs.at, applied |-> rs.applied, input |-> x,
     last |-> rs.x.shape, mu_logvar |-> NoTensor, outputs |-> <<>>]

\* What forward hands back: the outcome, and the buffers as the call left them.
Outcome(rs, result) ==
    [result |-> result, num_batches_tracked |-> rs.num_batches_tracked,
     running |-> rs.running]

split_mu_logvar(rs, x, target) ==
    LET shape == view_shape(Product(rs.x.shape), target)
    IN  IF rs.err # "" THEN Outcome(rs, Raised(rs, x))
        ELSE IF shape = <<>> THEN Outcome(rs, Raised(Fail(rs, "RuntimeError", "view"), x))
        ELSE Outcome(rs, [status |-> "ok", at |-> "", applied |-> rs.applied, input |-> x,
                          last |-> rs.x.shape, mu_logvar |-> rs.x,
                          outputs |-> unbind_last(shape, Contiguous(rs.x))])

(***************************************************************************)
(* EncoderBurgess                                                          *)
(***************************************************************************)
NoBuffers == [n \in {} |-> 0]

NoEncoder ==
    [cls |-> "None", latent_dim |-> 0, img_size |-> <<>>, layers |-> NoBuffers,
     training |-> FALSE, num_batches_tracked |-> NoBuffers, running |-> NoBuffers]

\* img_size[1] == img_size[2] == 64 (0-based in the source)
Is64x64(img_size) == img_size[2] = img_size[3] /\ img_size[3] = 64

EncoderBurgess__init__(img_size, latent_dim) ==
    LET hid_channels == 32
        kernel_size == 4
        hidden_dim == 256
        reshape == <<hid_channels, kernel_size, kernel_size>>
        n_chan == img_size[1]
        conv(in_channels) == Conv2d(in_channels, hid_channels, kernel_size, 2, 1)
        convs == ("conv1" :> conv(n_chan)) @@ ("conv2" :> conv(hid_channels))
                 @@ ("conv3" :> conv(hid_channels))
        conv_64 == IF Is64x64(img_size) THEN "conv_64" :> conv(hid_channels) ELSE NoBuffers
    IN  [cls |-> "EncoderBurgess", latent_dim |-> latent_dim, img_size |-> img_size,
         layers |-> convs @@ conv_64
                    @@ ("lin1" :> Linear(Product(reshape), hidden_dim))
                    @@ ("lin2" :> Linear(hidden_dim, hidden_dim))
                    @@ ("mu_logvar_gen" :> Linear(hidden_dim, latent_dim * 2)),
         training |-> TRUE, num_batches_tracked |-> NoBuffers, running |-> NoBuffers]

EncoderBurgess_forward_by_input(self, x) ==
    LET batch_size == x.shape[1]
        c1 == relu(Call(self, "conv1", Start(self, x)))
        c2 == relu(Call(self, "conv2", c1))
        c3 == relu(Call(self, "conv3", c2))
        c4 == IF Is64x64(SubSeq(x.shape, 2, 4)) THEN relu(Call(self, "conv_64", c3)) ELSE c3
        flat == view(c4, <<batch_size, -1>>)
        l1 == relu(Call(self, "lin1", flat))
        l2 == relu(Call(self, "lin2", l1))
        mu_logvar == Call(self, "mu_logvar_gen", l2)
    IN  split_mu_logvar(mu_logvar, x, <<-1, self.latent_dim, 2>>)

EncoderBurgess_forward(self, x) ==
    LET batch_size == x.shape[1]
        c1 == relu(Call(self, "conv1", Start(self, x)))
        c2 == relu(Call(self, "conv2", c1))
        c3 == relu(Call(self, "conv3", c2))
        c4 == IF Is64x64(self.img_size) THEN relu(Call(self, "conv_64", c3)) ELSE c3
        flat == view(c4, <<batch_size, -1>>)
        l1 == relu(Call(self, "lin1", flat))
        l2 == relu(Call(self, "lin2", l1))
        mu_logvar == Call(self, "mu_logvar_gen", l2)
    IN  split_mu_logvar(mu_logvar, x, <<-1, self.latent_dim, 2>>)

(***************************************************************************)
(* ConvEncoder                                                             *)
(***************************************************************************)
BatchNormLayers(layers) == {n \in DOMAIN layers : IsBatchNorm(layers[n])}

FreshBuffers(layers) == [n \in BatchNormLayers(layers) |-> 0]

ConvEncoder__init__(output_dim) ==
    LET layers == ("conv1" :> Conv2d(3, 64, 5, 1, 2)) @@ ("bn1" :> BatchNorm2d(64))
                  @@ ("conv2" :> Conv2d(64, 64, 5, 1, 2)) @@ ("bn2" :> BatchNorm2d(64))
                  @@ ("conv3" :> Conv2d(64, 128, 5, 1, 2)) @@ ("bn3" :> BatchNorm2d(128))
                  @@ ("fc1" :> Linear(8192, 3072)) @@ ("bn1_fc" :> BatchNorm1d(3072))
                  @@ ("fc2" :> Linear(3072, 2048)) @@ ("bn2_fc" :> BatchNorm1d(2048))
                  @@ ("mu_logvar_gen" :> Linear(2048, output_dim * 2))
                  @@ ("act" :> LeakyReLU)
    IN  [cls |-> "ConvEncoder", latent_dim |-> output_dim, img_size |-> <<>>,
         layers |-> layers, training |-> TRUE,
         num_batches_tracked |-> FreshBuffers(layers), running |-> FreshBuffers(layers)]

assert_at_least_4d(inputs) == Len(inputs.shape) >= 4

\* assert len(inputs.shape) == 4
assert_4d(inputs) == Len(inputs.shape) = 4

ConvEncoder_forward(self, inputs) ==
    LET s == inputs.shape
        start == Start(self, inputs)
        h0 == view(start, <<-1, s[2], s[3], s[4]>>)
        bn1 == Call(self, "bn1", Call(self, "conv1", h0))
        h1 == max_pool2d(Call(self, "act", bn1), 2, 3, 1)
        bn2 == Call(self, "bn2", Call(self, "conv2", h1))
        h2 == max_pool2d(Call(self, "act", bn2), 2, 3, 1)
        bn3 == Call(self, "bn3", Call(self, "conv3", h2))
        h3 == Call(self, "act", bn3)
        flat == view(h3, <<s[1], -1>>)
        h4 == Call(self, "act", Call(self, "bn1_fc", Call(self, "fc1", flat)))
        h5 == Call(self, "act", Call(self, "bn2_fc", Call(self, "fc2", h4)))
        mu_logvar == Call(self, "mu_logvar_gen", h5)
    IN  IF ~assert_4d(inputs)
        THEN Outcome(start, Raised(Fail(start, "AssertionError", "assert"), inputs))
        ELSE split_mu_logvar(mu_logvar, inputs, <<s[1], self.latent_dim, 2>>)

(***************************************************************************)
(* DomainEncoder                                                           *)
(***************************************************************************)
DomainEncoder__init__single(num_domains, output_dim) ==
    LET layers == ("embed" :> Embedding(num_domains, 512)) @@ ("bn" :> BatchNorm1d(512))
                  @@ ("mu_logvar_gen" :> Linear(512, output_dim))
                  @@ ("act" :> LeakyReLU)
    IN  [cls |-> "DomainEncoder", latent_dim |-> output_dim, img_size |-> <<>>,
         layers |-> layers, training |-> TRUE,
         num_batches_tracked |-> FreshBuffers(layers), running |-> FreshBuffers(layers)]

DomainEncoder__init__(num_domains, output_dim) ==
    LET layers == ("embed" :> Embedding(num_domains, 512)) @@ ("bn" :> BatchNorm1d(512))
                  @@ ("mu_logvar_gen" :> Linear(512, output_dim * 2))
                  @@ ("act" :> LeakyReLU)
    IN  [cls |-> "DomainEncoder", latent_dim |-> output_dim, img_size |-> <<>>,
         layers |-> layers, training |-> TRUE,
         num_batches_tracked |-> FreshBuffers(layers), running |-> FreshBuffers(layers)]

DomainEncoder_forward(self, inputs) ==
    LET batch_size == inputs.shape[1]
        h == Call(self, "act", Call(self, "bn", Call(self, "embed", Start(self, inputs))))
        mu_logvar == Call(self, "mu_logvar_gen", h)
    IN  split_mu_logvar(mu_logvar, inputs, <<batch_size, self.latent_dim, 2>>)

forward(self, x) ==
    CASE self.cls = "EncoderBurgess" -> EncoderBurgess_forward(self, x)
      [] self.cls = "ConvEncoder" -> ConvEncoder_forward(self, x)
      [] self.cls = "DomainEncoder" -> DomainEncoder_forward(self, x)

(***************************************************************************)
(* Inputs.                                                                 *)
(***************************************************************************)
\* (B, C, H, W) image batches
ImageBatches ==
    {[shape |-> <<B, C, H, W>>, rows |-> d] :
        B \in 1..MaxBatch, C \in Channels, H \in Sides, W \in Sides,
        d \in UNION {[1..n -> Pixels] : n \in 1..MaxBatch}}

ImageInputs == {x \in ImageBatches : Len(x.rows) = x.shape[1]}

\* Inputs that are not 4-dimensional: an image without its batch dimension,
\* a batch of flat vectors, a batch with one dimension too many.
OtherRankInputs ==
    {[shape |-> <<3, 32, 32>>, rows |-> <<0, 0, 0>>],
     [shape |-> <<1, 8192>>, rows |-> <<0>>],
     [shape |-> <<1, 1, 3, 32, 32>>, rows |-> <<0>>]}

\* (B,) batches of domain indices, in range and out of range
DomainInputs ==
    {[shape |-> <<B>>, rows |-> d] :
        B \in 1..MaxBatch, d \in UNION {[1..n -> -1..MaxDomains] : n \in 1..MaxBatch}}

IndexInputs == {x \in DomainInputs : Len(x.rows) = x.shape[1]}

(***************************************************************************)
(* The operations.                                                         *)
(***************************************************************************)
Init ==
    /\ model_type = <<>>
    /\ resolved = NoResult
    /\ enc = NoEncoder
    /\ ret = NoCall

\* get_encoder(model_type)
GetEncoder ==
    /\ resolved = NoResult
    /\ resolved' = get_encoder(model_type)
    /\ UNCHANGED <<model_type, enc, ret>>

\* EncoderBurgess(img_size, latent_dim)
NewEncoderBurgess ==
    /\ enc.cls = "None"
    /\ \E C \in Channels, H \in Sides, W \in Sides, latent_dim \in 1..MaxLatent :
          enc' = EncoderBurgess__init__(<<C, H, W>>, latent_dim)
    /\ UNCHANGED <<model_type, resolved, ret>>

\* ConvEncoder(output_dim)
NewConvEncoder ==
    /\ enc.cls = "None"
    /\ \E output_dim \in 1..MaxLatent : enc' = ConvEncoder__init__(output_dim)
    /\ UNCHANGED <<model_type, resolved, ret>>

\* DomainEncoder(num_domains, output_dim)
NewDomainEncoder ==
    /\ enc.cls = "None"
    /\ \E num_domains \in 1..MaxDomains, output_dim \in 1..MaxLatent :
          enc' = DomainEncoder__init__(num_domains, output_dim)
    /\ UNCHANGED <<model_type, resolved, ret>>

\* nn.Module.train(mode) / nn.Module.eval(), inherited by every encoder
SetMode ==
    /\ enc.cls # "None"
    /\ ret = NoCall
    /\ enc' = [enc EXCEPT !.training = ~@]
    /\ UNCHANGED <<model_type, resolved, ret>>

\* A training-mode call counts a batch in every batch-norm layer it reaches.
MayCount(self) ==
    self.training =>
        \A n \in DOMAIN self.num_batches_tracked : self.num_batches_tracked[n] < MaxTracked

Apply(x) ==
    LET out == forward(enc, x)
    IN  /\ ret' = out.result
        /\ enc' = [enc EXCEPT !.num_batches_tracked = out.num_batches_tracked,
                              !.running = out.running]
        /\ UNCHANGED <<model_type, resolved>>

\* encoder(x) on an EncoderBurgess
BurgessForward ==
    /\ enc.cls = "EncoderBurgess"
    /\ ret = NoCall
    /\ \E x \in ImageInputs : Apply(x)

\* encoder(inputs) on a ConvEncoder
ConvForward ==
    /\ enc.cls = "ConvEncoder"
    /\ ret = NoCall
    /\ MayCount(enc)
    /\ \E x \in ImageInputs \cup OtherRankInputs : Apply(x)

\* encoder(inputs) on a DomainEncoder
DomainForward ==
    /\ enc.cls = "DomainEncoder"
    /\ ret = NoCall
    /\ MayCount(enc)
    /\ \E x \in IndexInputs : Apply(x)

\* The caller takes the result (or handles the exception) of the call.
Release ==
    /\ ret # NoCall
    /\ ret' = NoCall
    /\ UNCHANGED <<model_type, resolved, enc>>

Forward == BurgessForward \/ ConvForward \/ DomainForward

Next ==
    \/ NewEncoderBurgess
    \/ NewConvEncoder
    \/ NewDomainEncoder
    \/ SetMode
    \/ BurgessForward
    \/ ConvForward
    \/ DomainForward
    \/ Release

Spec == Init /\ [][Next]_vars

\* get_encoder as a function of its argument
FactoryInit ==
    /\ model_type \in ModelTypes
    /\ resolved = NoResult
    /\ enc = NoEncoder
    /\ ret = NoCall

FactoryNext == GetEncoder

FactorySpec == FactoryInit /\ [][FactoryNext]_vars

(***************************************************************************)
(* Vocabulary of the properties.                                           *)
(***************************************************************************)
Called == ret.status # "none"

Succeeded == ret.status = "ok"

BatchOf(x) == x.shape[1]

UsesBatchNorm(self) == BatchNormLayers(self.layers) # {}

\* Batch normalisation takes the statistics of the batch itself.
BatchStatisticsMode(self) == UsesBatchNorm(self) /\ self.training

IndicesInRange(self, x) ==
    \A b \in 1..Len(x.rows) :
        0 <= x.rows[b] /\ x.rows[b] < self.layers["embed"].num_embeddings

\* An input of the shape the encoder is built for: an image of the declared
\* img_size, of one of the two documented sizes; a 3x32x32 image; a vector of
\* domain indices below num_domains.
Appropriate(self, x) ==
    CASE self.cls = "EncoderBurgess" ->
            /\ Len(x.shape) = 4
            /\ SubSeq(x.shape, 2, 4) = self.img_size
            /\ <<x.shape[3], x.shape[4]>> \in {<<32, 32>>, <<64, 64>>}
      [] self.cls = "ConvEncoder" -> x.shape = <<BatchOf(x), 3, 32, 32>>
      [] self.cls = "DomainEncoder" -> Len(x.shape) = 1 /\ IndicesInRange(self, x)
      [] OTHER -> FALSE

\* forward returned exactly two tensors, each of shape (B, latent_dim)
MeanAndLogvar ==
    /\ Succeeded
    /\ Len(ret.outputs) = 2
    /\ \A k \in 1..2 : ret.outputs[k].shape = <<BatchOf(ret.input), enc.latent_dim>>

\* A step that is a forward call
ForwardCall == ret = NoCall /\ ret' # NoCall

(***************************************************************************)
(* C1: for every encoder, latent_dim L and batch size B >= 1, forward on   *)
(* an appropriately shaped input returns exactly two tensors (mean,        *)
(* logvar), each of shape (B, L).                                          *)
(***************************************************************************)
C1_Original == (Called /\ Appropriate(enc, ret.input)) => MeanAndLogvar

\* C1 as amended: it holds for every B >= 1 on EncoderBurgess and in eval mode,
\* and for every B >= 2 on ConvEncoder and DomainEncoder in training mode, where
\* a batch of one sample is refused by batch normalisation (ValueError); and
\* whatever forward returns is two tensors of shape (B, L).
C1_OutputShapes ==
    /\ Succeeded => MeanAndLogvar
    /\ (Called /\ Appropriate(enc, ret.input)) =>
          IF BatchStatisticsMode(enc) /\ BatchOf(ret.input) = 1
          THEN ret.status = "ValueError" /\ ret.outputs = <<>>
          ELSE MeanAndLogvar

C1_Witness ==
    /\ Called /\ Appropriate(enc, ret.input) /\ MeanAndLogvar
    /\ enc.cls = "ConvEncoder" /\ enc.training
    /\ BatchOf(ret.input) = 2 /\ enc.latent_dim = 2

(***************************************************************************)
(* C2: for each of the three encoders there is a variant name that         *)
(* get_encoder resolves to that encoder's type, in any letter-casing.      *)
(***************************************************************************)
\* What get_encoder gives for a name: what the call made with it returned.
Resolution(name) == IF name = model_type THEN resolved ELSE get_encoder(name)

C2_EveryVariantResolves ==
    resolved # NoResult =>
        \A v \in Variants : \E w \in Words : \A name \in Casings(w) : Resolution(name) = v

\* What the code does: whatever the argument, get_encoder returns
\* EncoderBurgess or raises NameError.
C2_OnlyBurgessResolves ==
    resolved # NoResult =>
        /\ resolved \in {"EncoderBurgess", "NameError"}
        /\ resolved = "EncoderBurgess" <=> str_lower(model_type) = <<"b", "u", "r", "g", "e", "s", "s">>

C2_Witness ==
    /\ resolved = "NameError"
    /\ model_type = <<"C", "o", "n", "v">>

(***************************************************************************)
(* C3: mean[b][j] is element 2*j and logvar[b][j] element 2*j+1 of sample  *)
(* b's row of the final projection, and together they cover every element  *)
(* of the projection exactly once.                                         *)
(***************************************************************************)
C3_Interleaved ==
    Succeeded =>
        LET B == BatchOf(ret.input)
            L == enc.latent_dim
            mean == ret.outputs[1].elems
            logvar == ret.outputs[2].elems
            taken == {<<k, b, j>> \in (1..2) \X (1..B) \X (1..L) : TRUE}
        IN  /\ ret.mu_logvar.shape = <<B, 2 * L>>
            /\ \A b \in 1..B : \A j \in 0..(L - 1) :
                  /\ mean[b][j + 1] = [row |-> b, unit |-> 2 * j]
                  /\ logvar[b][j + 1] = [row |-> b, unit |-> 2 * j + 1]
            /\ \A b \in 1..B : \A u \in 0..(2 * L - 1) :
                  Cardinality({t \in taken :
                      ret.outputs[t[1]].elems[t[2]][t[3]] = [row |-> b, unit |-> u]}) = 1

C3_Witness ==
    /\ Succeeded /\ enc.cls = "DomainEncoder"
    /\ BatchOf(ret.input) = 2 /\ enc.latent_dim = 2
    /\ ret.outputs[2].elems[2][2] = [row |-> 2, unit |-> 3]

(***************************************************************************)
(* C4: EncoderBurgess constructs conv_64 iff H == W == 64; forward applies *)
(* 4 stride-2 convolutions when H == W == 64 and 3 otherwise, and never    *)
(* uses conv_64 on an instance that does not have it.                      *)
(***************************************************************************)
ConvLayers == {"conv1", "conv2", "conv3", "conv_64"}

ConvolutionsApplied == Cardinality({i \in 1..Len(ret.applied) : ret.applied[i] \in ConvLayers})

\* The call got through the convolution stack.
PastConvolutions == Called /\ ret.at \notin ConvLayers

C5_AssertsRank ==
    [][(ForwardCall /\ enc.cls = "ConvEncoder") =>
          IF Len(ret'.input.shape) # 4
          THEN /\ ret'.status = "AssertionError"
               /\ ret'.applied = <<>>
               /\ ret'.outputs = <<>>
               /\ enc' = enc
          ELSE ret'.status # "AssertionError"]_vars

C5_Witness ==
    /\ enc.cls = "ConvEncoder" /\ enc.training
    /\ ret.input.shape = <<3, 32, 32>>
    /\ ret.status = "AssertionError"

(***************************************************************************)
(* C6: DomainEncoder.forward produces (mean, logvar) for a batch whose     *)
(* indices all lie in [0, num_domains), and raises (no result) whenever    *)
(* an index is < 0 or >= num_domains.                                      *)
(***************************************************************************)
C6_Original ==
    (Called /\ enc.cls = "DomainEncoder") =>
        IF IndicesInRange(enc, ret.input)
        THEN MeanAndLogvar
        ELSE ~Succeeded /\ ret.outputs = <<>>

\* C6 as amended: an index out of range raises IndexError in the embedding; a
\* batch of indices in range gives (mean, logvar) in eval mode and, in training
\* mode, when it holds at least two indices: batch normalisation refuses a
\* training batch of one (ValueError).
C6_DomainIndices ==
    (Called /\ enc.cls = "DomainEncoder") =>
        IF ~IndicesInRange(enc, ret.input)
        THEN ret.status = "IndexError" /\ ret.at = "embed" /\ ret.outputs = <<>>
        ELSE IF enc.training /\ BatchOf(ret.input) = 1
        THEN ret.status = "ValueError" /\ ret.at = "bn" /\ ret.outputs = <<>>
        ELSE MeanAndLogvar

C6_Witness ==
    /\ Called /\ enc.cls = "DomainEncoder"
    /\ ret.input.rows = <<0, -1>>
    /\ ret.status = "IndexError"

(***************************************************************************)
(* C7: a forward call leaves all encoder-owned state unchanged (weights,   *)
(* embeddings, batch-norm statistics), so any number of calls yields the   *)
(* same state and the same output for the same input batch.                *)
(***************************************************************************)
C7_Original == [][ForwardCall => enc' = enc]_vars

\* The call just made, made again.
Repeated == forward(enc', ret'.input).result

\* The call just made got to a batch-norm layer.
ReachedBatchNorm ==
    \/ \E i \in 1..Len(ret'.applied) : ret'.applied[i] \in BatchNormLayers(enc.layers)
    \/ ret'.at \in BatchNormLayers(enc.layers)

\* C7 as amended: forward leaves the state unchanged on EncoderBurgess, and on
\* ConvEncoder and DomainEncoder in eval mode, and the call repeated gives the
\* same output; in training mode every batch-norm layer the call reaches counts
\* the batch, so the state changes exactly when one is reached.
C7_ForwardFrame ==
    [][ForwardCall =>
          /\ Repeated = ret'
          /\ ~BatchStatisticsMode(enc) => enc' = enc
          /\ enc' # enc <=> (BatchStatisticsMode(enc) /\ ReachedBatchNorm)]_vars

C7_Witness ==
    /\ Succeeded /\ enc.cls = "ConvEncoder" /\ ~enc.training
    /\ enc.num_batches_tracked["bn1"] = 1
    /\ enc.running["bn2_fc"] = 0

(***************************************************************************)
(* C8: no cross-sample coupling: two batches of the same size that agree   *)
(* on sample i give the same (mean, logvar) row for sample i, in every     *)
(* encoder.                                                                *)
(***************************************************************************)
\* The batches of the shape of x
SameShape(x) == {y \in ImageInputs \cup IndexInputs : y.shape = x.shape}

\* Sample i of the call just made has the output row it has in a call on y.
SameRow(y, i) ==
    LET other == forward(enc, y).result
    IN  (ret'.status = "ok" /\ other.status = "ok")
            => other.mu_logvar.rows[i] = ret'.mu_logvar.rows[i]

Uncoupled ==
    \A y \in SameShape(ret'.input) : \A i \in 1..BatchOf(y) :
        y.rows[i] = ret'.input.rows[i] => SameRow(y, i)

C8_Original == [][ForwardCall => Uncoupled]_vars

\* C8 as amended: it holds of EncoderBurgess, and of ConvEncoder and
\* DomainEncoder in eval mode; in training mode their batch normalisation
\* takes its statistics over the batch, which couples the samples.
C8_NoCoupling == [][(ForwardCall /\ ~BatchStatisticsMode(enc)) => Uncoupled]_vars

C8_Witness ==
    /\ Succeeded /\ enc.cls = "DomainEncoder" /\ ~enc.training
    /\ ret.input.rows = <<0, 1>>
    /\ ret.mu_logvar.rows[1].norm = <<[layer |-> "bn", running |-> 0]>>

(***************************************************************************)
(* C9: ConvEncoder.forward on a (B, C, H, W) input is shape-consistent     *)
(* exactly when C == 3 and 128 * p(p(H)) * p(p(W)) == 8192, with           *)
(* p(n) = floor((n-1)/2) + 1; 3x32x32 satisfies this; any other channel    *)
(* count or flattened size fails with a shape error.                       *)
(***************************************************************************)
Pooled(n) == (n - 1) \div 2 + 1

Flattened(x) == 128 * Pooled(Pooled(x.shape[3])) * Pooled(Pooled(x.shape[4]))

FitsConvEncoder(x) == x.shape[2] = 3 /\ Flattened(x) = 8192

ConvCall == Called /\ enc.cls = "ConvEncoder" /\ Len(ret.input.shape) = 4

C9_Original ==
    ConvCall =>
        /\ FitsConvEncoder(ret.input) <=> Succeeded
        /\ ~FitsConvEncoder(ret.input) => ret.status \in {"RuntimeError", "ValueError"}

\* C9 as amended: forward returns exactly when the shape condition holds and
\* the batch is not a training batch of one sample; the shape condition is what
\* conv1 and fc1 check (RuntimeError); a training batch of one sample is refused
\* by batch normalisation (ValueError), at bn1_fc when the shapes fit and at the
\* first batch norm fed one value per channel when the image has shrunk to 1x1.
C9_FlattenedSize ==
    ConvCall =>
        LET x == ret.input
            single == enc.training /\ BatchOf(x) = 1
        IN  /\ Succeeded <=> (FitsConvEncoder(x) /\ ~single)
            /\ x.shape = <<BatchOf(x), 3, 32, 32>> => FitsConvEncoder(x)
            /\ (FitsConvEncoder(x) /\ single) =>
                  ret.status = "ValueError" /\ ret.at = "bn1_fc"
            /\ (~FitsConvEncoder(x) /\ x.shape[2] # 3) =>
                  ret.status = "RuntimeError" /\ ret.at = "conv1"
            /\ (~FitsConvEncoder(x) /\ x.shape[2] = 3) =>
                  \/ ret.status = "RuntimeError" /\ ret.at = "fc1"
                        /\ ret.last = <<BatchOf(x), Flattened(x)>>
                  \/ /\ single /\ ret.status = "ValueError"
                     /\ ret.at \in {"bn1", "bn2", "bn3"}
                     /\ Pooled(Pooled(x.shape[3])) * Pooled(Pooled(x.shape[4])) = 1

C9_Witness ==
    /\ ConvCall /\ Succeeded
    /\ ret.input.shape = <<2, 3, 32, 32>>
    /\ ret.mu_logvar.shape = <<2, 2 * enc.latent_dim>>

(***************************************************************************)
(* C10: in EncoderBurgess, for an input of the declared img_size, the      *)
(* flattened output of the convolutions (32 channels, each convolution     *)
(* halving a side with floor, 4 times if H == W == 64 and 3 times          *)
(* otherwise) has 512 features, the input width of lin1, for 32x32 and     *)
(* 64x64; for a declared size where it has not, forward fails with a       *)
(* shape error before the latent projection.                               *)
(***************************************************************************)
RECURSIVE Halved(_, _)
Halved(n, times) == IF times = 0 THEN n ELSE Halved(n \div 2, times - 1)

Reduced(self, n) ==
    Halved(n, IF self.img_size[2] = 64 /\ self.img_size[3] = 64 THEN 4 ELSE 3)

Features(self) == 32 * Reduced(self, self.img_size[2]) * Reduced(self, self.img_size[3])

DeclaredCall ==
    /\ Called /\ enc.cls = "EncoderBurgess"
    /\ SubSeq(ret.input.shape, 2, 4) = enc.img_size

C10_FlattenedFeatures ==
    DeclaredCall =>
        /\ <<enc.img_size[2], enc.img_size[3]>> \in {<<32, 32>>, <<64, 64>>}
              => Features(enc) = 512
        /\ Features(enc) = 512 =>
              /\ MeanAndLogvar
              /\ \E i \in 1..Len(ret.applied) : ret.applied[i] = "lin1"
        /\ Features(enc) # 512 =>
              /\ ret.status = "RuntimeError"
              /\ \A i \in 1..Len(ret.applied) : ret.applied[i] # "mu_logvar_gen"
              /\ PastConvolutions =>
                    ret.at = "lin1" /\ ret.last = <<BatchOf(ret.input), Features(enc)>>

C10_Witness ==
    /\ DeclaredCall /\ enc.img_size = <<1, 28, 28>>
    /\ ret.status = "RuntimeError" /\ ret.at = "lin1"
    /\ ret.last = <<2, 288>>
====
